---- MODULE Spec2Model ----
(***************************************************************************)
(* QuickText Pro: the keystroke monitoring / expansion engine              *)
(* (KeyboardMonitor in quicktext_pro.py) and the part of MainWindow that   *)
(* starts, stops and configures it.                                        *)
(*                                                                         *)
(* A string is a sequence of one-character strings, so that len(), split() *)
(* and lower() are computed and not assumed.  Time is counted in whole     *)
(* seconds.  A value returned by on_press is "None" (forward the event) or *)
(* "False" (the signal the source uses to suppress the event).             *)
(***************************************************************************)
EXTENDS Integers, Sequences, FiniteSets, TLC

\* ---------------------------------------------------------------- bounds
MaxBuf == 2            \* longest typing buffer explored
MaxTime == 3           \* the clock stops advancing at this many seconds

\* ------------------------------------------------------------- alphabet
LowerChars == {"a", "b"}
UpperChars == {"A"}
Chars == LowerChars \cup UpperChars          \* keys with a .char
Whitespace == {" "}
Delims == {"space", "enter", "tab"}          \* Key.space, Key.enter, Key.tab
CtrlKeys == {"ctrl_l", "ctrl_r"}             \* Key.ctrl_l, Key.ctrl_r
SpecialKeys == Delims \cup CtrlKeys \cup {"backspace", "other"}
Keys == Chars \cup SpecialKeys
\* keys whose release is delivered: both Control keys, a delimiter, a character
ReleaseKeys == CtrlKeys \cup {"space", "a"}
Modes == {"hotkey", "auto"}

\* keyword -> phrase mappings the shell hands to the engine
KwAB == <<"a", "b">>
KwB == <<"b">>
Snapshot1 == (KwAB :> "P1") @@ (KwB :> "P2")
Snapshot2 == (KwAB :> "P2")
Snapshots == {Snapshot1, Snapshot2}

\* ------------------------------------------------------ string functions
\* str.lower() on one character
LowerChar(c) == IF c = "A" THEN "a" ELSE c

\* a lower() that leaves the string as typed
lower_AsTyped(s) == s

\* str.lower()
lower(s) == [i \in 1..Len(s) |-> LowerChar(s[i])]

RECURSIVE lstrip(_)
lstrip(s) == IF s # <<>> /\ Head(s) \in Whitespace THEN lstrip(Tail(s)) ELSE s

RECURSIVE rstrip(_)
rstrip(s) ==
    IF s # <<>> /\ s[Len(s)] \in Whitespace
    THEN rstrip(SubSeq(s, 1, Len(s) - 1))
    ELSE s

\* str.strip()
strip(s) == rstrip(lstrip(s))

\* length of the leading run of non-whitespace characters
RECURSIVE WordLen(_)
WordLen(s) ==
    IF s = <<>> \/ Head(s) \in Whitespace THEN 0 ELSE 1 + WordLen(Tail(s))

\* str.split() with no argument: the maximal runs of non-whitespace
RECURSIVE split(_)
split(s) ==
    IF s = <<>> THEN <<>>
    ELSE IF Head(s) \in Whitespace THEN split(Tail(s))
    ELSE LET n == WordLen(s)
         IN <<SubSeq(s, 1, n)>> \o split(SubSeq(s, n + 1, Len(s)))

\* ----------------------------------------------------------------- state
VARIABLES
    is_monitoring,      \* MainWindow.is_monitoring
    is_running,         \* KeyboardMonitor.is_running
    mode,               \* KeyboardMonitor.mode
    shortcuts,          \* KeyboardMonitor.shortcuts
    buffer,             \* KeyboardMonitor.buffer
    last_key_time,      \* KeyboardMonitor.last_key_time
    ctrl_pressed,       \* KeyboardMonitor.ctrl_pressed
    pending_expansion,  \* KeyboardMonitor.pending_expansion
    now,                \* time.time()
    prev_press_time,    \* history: time of the latest press the running
                        \* engine classified, -1 before the first one
    last,               \* history: the latest key event, the buffer
                        \* before it and what the handler did
    pc,                 \* listener thread: where it is inside on_press
    call,               \* listener thread: the locals of that on_press
    run_pc,             \* monitor thread: where it is inside run
    stop_pc,            \* shell thread: where it is inside stop
    listener,           \* KeyboardMonitor.listener is an installed hook
    store,              \* Database: the rows of the table shortcuts
    held,               \* keyboard: the Control keys that are down
    inbox,              \* Qt: the notifications queued for the shell thread
    served              \* history: flips each time the shell handles one

vars == <<is_monitoring, is_running, mode, shortcuts, buffer, last_key_time,
          ctrl_pressed, pending_expansion, now, prev_press_time, last,
          pc, call, run_pc, stop_pc, listener, store, held, inbox, served>>

\* what the threads add to the engine's fields
racevars == <<pc, call>>
lifevars == <<run_pc, stop_pc, listener>>
\* what the keyboard and the shell's event queue add
envvars == <<held, inbox, served>>

\* no mapping read
NoSnap == [k \in {} |-> ""]

NoEvent ==
    [phase |-> "none", key |-> "other", ret |-> "None", log |-> <<>>,
     reset |-> FALSE, called |-> FALSE, before |-> <<>>,
     error |-> "none", snap |-> NoSnap]

\* the listener thread is not inside on_press
NoCall ==
    [key |-> "other", keyword |-> <<>>, auto |-> FALSE, reset |-> FALSE,
     before |-> <<>>, snap |-> NoSnap]

\* ------------------------------------------- KeyboardMonitor: pure parts
\* one entry of the record of what an event did: a synthetic key action
\* (keyboard_controller.press/release), a clipboard write (pyperclip.copy),
\* an emitted signal (expansion_triggered.emit) or the clearing of the buffer
Act(op, arg) == [op |-> op, arg |-> arg, kw |-> <<>>]
Emit(keyword, phrase) == [op |-> "emit", arg |-> phrase, kw |-> keyword]

\* an idle rule with a longer threshold
IdleExpired_Late(current_time, last_time) == current_time - last_time > 3

\* on_press, "if current_time - self.last_key_time > 2"
IdleExpired(current_time, last_time) == current_time - last_time > 2

\* a pending check that forgets to look at the key
PendingSuppresses_AnyKey(pending, key) == pending

\* on_press, "if self.pending_expansion: if key in [space, enter, tab]"
PendingSuppresses(pending, key) == pending /\ key \in Delims

\* a check that forgets the lookup
check_for_expansion_AnyWord(buf, sc) == split(strip(buf)) # <<>>

\* check_for_expansion
check_for_expansion(buf, sc) ==
    LET words == split(strip(buf))
    IN IF words = <<>> THEN FALSE
       ELSE lower(words[Len(words)]) \in DOMAIN sc

\* a loop that runs once too often
EraseKeys_OneMore(keyword) ==
    [i \in 1..(2 * (Len(keyword) + 1)) |->
        IF i % 2 = 1 THEN Act("press", "backspace")
        ELSE Act("release", "backspace")]

\* expand_from_buffer, the loop "for _ in range(len(keyword))"
EraseKeys(keyword) ==
    [i \in 1..(2 * Len(keyword)) |->
        IF i % 2 = 1 THEN Act("press", "backspace")
        ELSE Act("release", "backspace")]

\* expand_from_buffer, "Paste using Ctrl+V"
PasteChord ==
    <<Act("press", "ctrl"), Act("press", "v"),
      Act("release", "v"), Act("release", "ctrl")>>

\* a body that pastes before it erases
ExpandSteps_PasteFirst(keyword, phrase) ==
    <<Act("copy", phrase)>> \o PasteChord \o EraseKeys(keyword)
        \o <<Emit(keyword, phrase)>> \o <<Act("clear", "buffer")>>

\* expand_from_buffer, the body of "if keyword in self.shortcuts", in order
ExpandSteps(keyword, phrase) ==
    EraseKeys(keyword) \o <<Act("copy", phrase)>> \o PasteChord
        \o <<Emit(keyword, phrase)>> \o <<Act("clear", "buffer")>>

\* expand_from_buffer: the new buffer and what was done, in order
expand_from_buffer(buf, sc) ==
    LET words == split(strip(buf))
    IN IF words = <<>>
       THEN [buffer |-> buf, log |-> <<>>]
       ELSE LET keyword == lower(words[Len(words)])
            IN IF keyword \in DOMAIN sc
               THEN [buffer |-> <<>>,
                     log |-> ExpandSteps(keyword, sc[keyword])]
               ELSE [buffer |-> buf, log |-> <<>>]

\* the buffer-building branches shared by both modes: a character key
\* appends its character, Backspace removes the last character
BuildChar(buf, key) == Append(buf, key)
BuildBackspace(buf) ==
    IF Len(buf) > 0 THEN SubSeq(buf, 1, Len(buf) - 1) ELSE buf

\* a trigger that forgets the Control key
HotkeyTrigger_AnySpace(ctrl, key) == key = "space"

\* on_press, "if self.ctrl_pressed and key == Key.space"
HotkeyTrigger(ctrl, key) == ctrl /\ key = "space"

\* on_press in hotkey mode, after the idle check (buf is the buffer then)
HotkeyRule(key, buf, base) ==
    IF HotkeyTrigger(ctrl_pressed, key)
    THEN LET e == expand_from_buffer(buf, shortcuts)
         IN [base EXCEPT !.buffer = e.buffer, !.log = e.log,
                         !.called = TRUE]
    ELSE IF key \in Chars THEN [base EXCEPT !.buffer = BuildChar(buf, key)]
    ELSE IF key = "space" THEN [base EXCEPT !.buffer = Append(buf, " ")]
    ELSE IF key = "backspace" THEN [base EXCEPT !.buffer = BuildBackspace(buf)]
    ELSE base

\* on_press in auto mode, after the idle check
AutoRule(key, buf, base) ==
    IF key \in Chars THEN [base EXCEPT !.buffer = BuildChar(buf, key)]
    ELSE IF key \in Delims
    THEN IF check_for_expansion(buf, shortcuts)
         THEN LET e == expand_from_buffer(buf, shortcuts)
              IN [base EXCEPT !.pending_expansion = TRUE,
                              !.buffer = e.buffer,
                              !.log = e.log, !.called = TRUE,
                              !.ret = "False"]
         ELSE [base EXCEPT !.buffer = <<>>]
    ELSE IF key = "backspace" THEN [base EXCEPT !.buffer = BuildBackspace(buf)]
    ELSE base

\* an engine that classifies presses whether it is running or not
Ignores_Never(running) == FALSE

\* on_press, its first statement: "if not self.is_running: return"
Ignores(running) == ~running

\* on_press: the values of the fields after the call, the value returned,
\* the record of what was done, whether the idle rule reset the buffer,
\* whether expand_from_buffer was called and the exception caught, if any
on_press(key) ==
    LET same == [ret |-> "None", buffer |-> buffer,
                 last_key_time |-> last_key_time,
                 ctrl_pressed |-> ctrl_pressed,
                 pending_expansion |-> pending_expansion,
                 log |-> <<>>, reset |-> FALSE, called |-> FALSE,
                 error |-> "none"]
    IN IF Ignores(is_running) THEN same
       ELSE IF PendingSuppresses(pending_expansion, key)
       THEN [same EXCEPT !.pending_expansion = FALSE, !.ret = "False"]
       ELSE LET current_time == now
                idle == IdleExpired(current_time, last_key_time)
                buf == IF idle THEN <<>> ELSE buffer
                base == [same EXCEPT !.buffer = buf,
                                     !.last_key_time = current_time,
                                     !.reset = idle]
            IN IF key \in CtrlKeys THEN [base EXCEPT !.ctrl_pressed = TRUE]
               ELSE IF mode = "hotkey" THEN HotkeyRule(key, buf, base)
               ELSE IF mode = "auto" THEN AutoRule(key, buf, base)
               ELSE base

\* a release handler that also clears the buffer
on_release_ClearsBuffer(key) ==
    [ret |-> "None", buffer |-> <<>>, last_key_time |-> last_key_time,
     ctrl_pressed |-> IF key \in CtrlKeys THEN FALSE ELSE ctrl_pressed,
     pending_expansion |-> pending_expansion]

\* on_release: the values of the fields after the call and the value
\* returned
on_release(key) ==
    LET same == [ret |-> "None", buffer |-> buffer,
                 last_key_time |-> last_key_time,
                 ctrl_pressed |-> ctrl_pressed,
                 pending_expansion |-> pending_expansion]
    IN IF key \in CtrlKeys THEN [same EXCEPT !.ctrl_pressed = FALSE]
       ELSE same

\* ---------------------------------------------------------- Database
\* the rows of a store that holds the mapping sc, none of them used yet
StoreOf(sc) ==
    [k \in DOMAIN sc |-> [phrase |-> sc[k], usage_count |-> 0]]

\* ---------------------------------------------------------------- Init
\* MainWindow.__init__: the monitor is constructed stopped, in hotkey mode,
\* with no thread inside it, and load_shortcuts hands it the store's mapping
Init ==
    /\ is_monitoring = FALSE
    /\ is_running = FALSE
    /\ mode = "hotkey"
    /\ shortcuts \in Snapshots
    /\ buffer = <<>>
    /\ last_key_time = 0
    /\ ctrl_pressed = FALSE
    /\ pending_expansion = FALSE
    /\ now = 0
    /\ prev_press_time = -1
    /\ last = NoEvent
    /\ pc = "idle"
    /\ call = NoCall
    /\ run_pc = "none"
    /\ stop_pc = "idle"
    /\ listener = FALSE
    /\ store = StoreOf(shortcuts)
    /\ held = {}
    /\ inbox = <<>>
    /\ served = FALSE

\* -------------------------------------------------------------- actions
\* the listener delivers a key press
KeyPress(key) ==
    LET r == on_press(key)
    IN /\ Len(r.buffer) <= MaxBuf
       /\ buffer' = r.buffer
       /\ last_key_time' = r.last_key_time
       /\ ctrl_pressed' = r.ctrl_pressed
       /\ pending_expansion' = r.pending_expansion
       /\ prev_press_time' = IF is_running THEN now ELSE prev_press_time
       /\ last' = [phase |-> "press", key |-> key, ret |-> r.ret,
                   log |-> r.log, reset |-> r.reset, called |-> r.called,
                   before |-> buffer, error |-> r.error,
                   snap |-> IF r.called THEN shortcuts ELSE NoSnap]
       /\ UNCHANGED <<is_monitoring, is_running, mode, shortcuts, now>>
       /\ UNCHANGED <<racevars, lifevars, store>>
       /\ UNCHANGED envvars

\* the listener delivers a key release
KeyRelease(key) ==
    LET r == on_release(key)
    IN /\ buffer' = r.buffer
       /\ last_key_time' = r.last_key_time
       /\ ctrl_pressed' = r.ctrl_pressed
       /\ pending_expansion' = r.pending_expansion
       /\ last' = [phase |-> "release", key |-> key, ret |-> r.ret,
                   log |-> <<>>, reset |-> FALSE, called |-> FALSE,
                   before |-> buffer, error |-> "none", snap |-> NoSnap]
       /\ UNCHANGED <<is_monitoring, is_running, mode, shortcuts, now,
                      prev_press_time>>
       /\ UNCHANGED <<racevars, lifevars, store>>
       /\ UNCHANGED envvars

\* one second passes
Tick ==
    /\ now < MaxTime
    /\ now' = now + 1
    /\ last' = NoEvent
    /\ UNCHANGED <<is_monitoring, is_running, mode, shortcuts, buffer,
                   last_key_time, ctrl_pressed, pending_expansion,
                   prev_press_time>>
    /\ UNCHANGED <<racevars, lifevars, store>>
    /\ UNCHANGED envvars

\* MainWindow.toggle_monitoring, with the monitor thread taken to its end
\* in the same step: start (KeyboardMonitor.run sets is_running, installs
\* the listener and waits in join) or stop (KeyboardMonitor.stop, after
\* which run returns)
toggle_monitoring ==
    /\ is_monitoring' = ~is_monitoring
    /\ is_running' = ~is_monitoring
    /\ listener' = ~is_monitoring
    /\ run_pc' = IF is_monitoring THEN "none" ELSE "join"
    /\ last' = NoEvent
    /\ UNCHANGED <<mode, shortcuts, buffer, last_key_time, ctrl_pressed,
                   pending_expansion, now, prev_press_time>>
    /\ UNCHANGED <<racevars, stop_pc, store>>
    /\ UNCHANGED envvars

\* KeyboardMonitor.set_mode
set_mode(m) ==
    /\ mode' = m
    /\ last' = NoEvent
    /\ UNCHANGED <<is_monitoring, is_running, shortcuts, buffer,
                   last_key_time, ctrl_pressed, pending_expansion, now,
                   prev_press_time>>
    /\ UNCHANGED <<racevars, lifevars, store>>
    /\ UNCHANGED envvars

\* MainWindow.change_mode, reached from the mode selector of the header,
\* which toggle_monitoring disables while monitoring
change_mode(m) ==
    /\ ~is_monitoring
    /\ m # mode
    /\ set_mode(m)

\* MainWindow.show_settings: the dialog's choice is written to the mode
\* selector, whose index change calls change_mode
show_settings(new_mode) ==
    /\ new_mode # mode
    /\ set_mode(new_mode)

\* the store changed to hold the mapping sc, then
\* MainWindow.update_monitor_shortcuts -> KeyboardMonitor.set_shortcuts
set_shortcuts(sc) ==
    /\ sc # shortcuts
    /\ shortcuts' = sc
    /\ store' = StoreOf(sc)
    /\ last' = NoEvent
    /\ UNCHANGED <<is_monitoring, is_running, mode, buffer, last_key_time,
                   ctrl_pressed, pending_expansion, now, prev_press_time>>
    /\ UNCHANGED <<racevars, lifevars>>
    /\ UNCHANGED envvars

Next ==
    \/ \E key \in Keys : KeyPress(key)
    \/ \E key \in ReleaseKeys : KeyRelease(key)
    \/ Tick
    \/ toggle_monitoring
    \/ \E m \in Modes : change_mode(m)
    \/ \E m \in Modes : show_settings(m)
    \/ \E sc \in Snapshots : set_shortcuts(sc)

Spec == Init /\ [][Next]_vars

\* ===================================================================
\* Vocabulary of the properties
\* ===================================================================
\* the buffer holds a token and its last token, lower-cased, is a key of sc
Matches(buf, sc) ==
    /\ split(buf) # <<>>
    /\ lower(split(buf)[Len(split(buf))]) \in DOMAIN sc

\* the last whitespace-delimited token of the buffer, lower-cased
KeywordOf(buf) == lower(split(buf)[Len(split(buf))])

\* the positions of a record of actions that hold the entry e
Positions(log, e) == {i \in DOMAIN log : log[i] = e}
\* the positions that hold an entry of the kind op
PositionsOf(log, op) == {i \in DOMAIN log : log[i].op = op}

\* the step is a call of on_press with a delimiter / any key
DelimPressed(ev) == ev.phase = "press" /\ ev.key \in Delims
Suppressed(ev) == ev.ret = "False"

\* the event did nothing of an expansion: no synthetic key action, no
\* clipboard write, no notification
NoExpansion(ev) == ev.log = <<>>

\* the event expanded keyword kw to phrase ph: len(kw) backspace
\* press/release pairs, the clipboard written once, with ph, and the
\* notification (kw, ph) emitted exactly once
ExpandedAs(ev, kw, ph) ==
    /\ Cardinality(Positions(ev.log, Act("press", "backspace"))) = Len(kw)
    /\ Cardinality(Positions(ev.log, Act("release", "backspace"))) = Len(kw)
    /\ PositionsOf(ev.log, "copy") # {}
    /\ \A i \in PositionsOf(ev.log, "copy") : ev.log[i].arg = ph
    /\ Cardinality(PositionsOf(ev.log, "emit")) = 1
    /\ \A i \in PositionsOf(ev.log, "emit") : ev.log[i] = Emit(kw, ph)

\* ===================================================================
\* C1
\* ===================================================================
\* what C1 promises of a step: the expansion of the buffer's keyword, the
\* delimiter suppressed and the buffer cleared
C1_Effect ==
    /\ ExpandedAs(last', KeywordOf(buffer), shortcuts[KeywordOf(buffer)])
    /\ Suppressed(last')
    /\ buffer' = <<>>

\* C1 as stated: in auto mode, running, PendingExpansion not set, every
\* delimiter press whose buffer's last token, lower-cased, is a key of the
\* snapshot erases len(keyword) characters, writes the phrase to the
\* clipboard, is suppressed, clears the buffer and notifies exactly once.
C1_AsStated ==
    [][(/\ is_running /\ mode = "auto" /\ ~pending_expansion
        /\ DelimPressed(last')
        /\ Matches(buffer, shortcuts)) => C1_Effect]_vars

\* C1 (amended): the same, for a delimiter press that arrives no more than
\* 2 seconds after the last press whose time the engine recorded; a later
\* one finds the buffer reset by the idle rule and expands nothing.
C1_MatchExpands ==
    [][(/\ is_running /\ mode = "auto" /\ ~pending_expansion
        /\ DelimPressed(last')
        /\ now - last_key_time <= 2
        /\ Matches(buffer, shortcuts)) => C1_Effect]_vars

\* an auto-mode delimiter press has just expanded the two-letter keyword
C1_Witness ==
    /\ is_running /\ mode = "auto"
    /\ DelimPressed(last) /\ Suppressed(last)
    /\ \E ph \in {"P1", "P2"} : ExpandedAs(last, KwAB, ph)
    /\ buffer = <<>>

\* ===================================================================
\* C2
\* ===================================================================
\* C2: in auto mode, running, in every reachable state (after any history
\* of key events and expansions), a delimiter press that arrives when the
\* buffer's last token, lower-cased, is in the snapshot invokes
\* Match-and-Expand for that keyword.  Stated for the presses that arrive
\* within 2 seconds of the last recorded press, where the idle rule leaves
\* the buffer as it is.
C2_EveryMatchExpands ==
    [][(/\ is_running /\ mode = "auto"
        /\ DelimPressed(last')
        /\ now - last_key_time <= 2
        /\ Matches(buffer, shortcuts))
       => /\ last'.called
          /\ ExpandedAs(last', KeywordOf(buffer),
                        shortcuts[KeywordOf(buffer)])]_vars

\* ===================================================================
\* C3
\* ===================================================================
\* C3: in auto mode, running, PendingExpansion not set, a delimiter press
\* whose buffer's last token, lower-cased, is not in the snapshot, or whose
\* buffer holds no token, clears the buffer, is forwarded, performs no
\* synthetic key action, clipboard write or notification, and leaves
\* PendingExpansion false.
C3_NoMatchClears ==
    [][(/\ is_running /\ mode = "auto" /\ ~pending_expansion
        /\ DelimPressed(last')
        /\ ~Matches(buffer, shortcuts))
       => /\ buffer' = <<>>
          /\ ~Suppressed(last')
          /\ NoExpansion(last')
          /\ ~pending_expansion']_vars

\* an auto-mode delimiter press has just consumed the unknown word "a"
C3_Witness ==
    /\ is_running /\ mode = "auto"
    /\ DelimPressed(last) /\ ~last.reset
    /\ last.before = <<"a">>
    /\ buffer = <<>> /\ ~Suppressed(last) /\ ~pending_expansion

\* ===================================================================
\* C4
\* ===================================================================
\* C4: in hotkey mode no press performs an expansion (erase, clipboard
\* write, paste, notification) and none calls Match-and-Expand, except a
\* Space press that arrives while the engine holds Control to be down; in
\* particular no Space, Enter or Tab press without Control does.
C4_HotkeyOnlyCtrlSpace ==
    [][(/\ mode = "hotkey" /\ last'.phase = "press"
        /\ (last'.called \/ ~NoExpansion(last')))
       => (ctrl_pressed /\ last'.key = "space")]_vars

\* hotkey mode: a plain Space after the keyword "b" has just been added to
\* the buffer and nothing was expanded
C4_Witness ==
    /\ is_running /\ mode = "hotkey" /\ ~ctrl_pressed
    /\ last.phase = "press" /\ last.key = "space"
    /\ last.before = KwB /\ Matches(last.before, shortcuts)
    /\ buffer = <<"b", " ">>
    /\ NoExpansion(last) /\ ~last.called

\* ===================================================================
\* C5
\* ===================================================================
\* C5: once PendingExpansion is set, the presses that are not Space, Enter
\* or Tab leave it set and are not suppressed by it, no other event changes
\* it, the first delimiter press the running engine gets is suppressed and
\* clears it, and a delimiter press that finds it clear is suppressed only
\* by the auto-mode rule, that is when it expands.
C5_OneSuppression ==
    [][/\ (is_running /\ pending_expansion /\ DelimPressed(last'))
            => (Suppressed(last') /\ ~pending_expansion'
                /\ NoExpansion(last') /\ buffer' = buffer)
       /\ (is_running /\ pending_expansion /\ last'.phase = "press"
           /\ last'.key \notin Delims)
            => (~Suppressed(last') /\ pending_expansion')
       /\ (pending_expansion /\ (last'.phase # "press" \/ ~is_running))
            => pending_expansion'
       /\ (is_running /\ ~pending_expansion /\ DelimPressed(last')
           /\ Suppressed(last'))
            => (mode = "auto" /\ ~NoExpansion(last'))]_vars

\* a delimiter press has just been swallowed by the flag, which is clear now
C5_Witness ==
    /\ is_running
    /\ DelimPressed(last) /\ Suppressed(last) /\ NoExpansion(last)
    /\ ~pending_expansion

\* ===================================================================
\* C6
\* ===================================================================
\* C6: the delimiter withheld for an auto-mode expansion is the press that
\* triggered it and no other: a delimiter press is suppressed exactly when
\* that same press performed an auto-mode expansion, so that in every run
\* the suppressed delimiter presses are as many as the expansions.
C6_SuppressedIffExpanded ==
    [][DelimPressed(last')
       => (Suppressed(last') <=> (mode = "auto" /\ ~NoExpansion(last')))]_vars

\* ===================================================================
\* C7
\* ===================================================================
\* what typing the key does to a buffer: a character is appended, Backspace
\* removes the last character and leaves an empty buffer empty
Typed(buf, key) ==
    IF key \in Chars THEN Append(buf, key)
    ELSE IF buf = <<>> THEN <<>> ELSE SubSeq(buf, 1, Len(buf) - 1)

\* C7: with the engine running, in either mode, every character or
\* Backspace press that comes no more than 2 seconds after the press
\* before it leaves the buffer as it was with the character appended, or
\* with the last character removed (an empty buffer stays empty); so a
\* sequence of such presses with no gap over 2 seconds yields the buffer
\* before it followed by what was typed.
C7_BufferFollowsTyping ==
    [][(/\ is_running
        /\ last'.phase = "press"
        /\ last'.key \in Chars \cup {"backspace"}
        /\ prev_press_time >= 0
        /\ now - prev_press_time <= 2)
       => buffer' = Typed(buffer, last'.key)]_vars

\* ===================================================================
\* C8
\* ===================================================================
\* C8: with the engine running, a character press that comes more than 2
\* seconds after the press before it finds the buffer cleared by the idle
\* rule first, so the buffer after it is that one character.
C8_IdleReset ==
    [][(/\ is_running
        /\ last'.phase = "press" /\ last'.key \in Chars
        /\ prev_press_time >= 0
        /\ now - prev_press_time > 2)
       => (last'.reset /\ buffer' = <<last'.key>>)]_vars

\* a character has just been typed more than 2 seconds after the press
\* before it, on a buffer that was not empty
C8_Witness ==
    /\ is_running
    /\ last.phase = "press" /\ last.key \in Chars
    /\ last.before # <<>>
    /\ last.reset
    /\ buffer = <<last.key>>

\* ===================================================================
\* C9
\* ===================================================================
\* the other letter case of a character
SwapCase(c) == IF c = "A" THEN "a" ELSE IF c = "a" THEN "A" ELSE c

\* the words that differ from w in letter case only
RECURSIVE WordVariants(_)
WordVariants(w) ==
    IF w = <<>> THEN {<<>>}
    ELSE {<<c>> \o r : c \in {Head(w), SwapCase(Head(w))},
                       r \in WordVariants(Tail(w))}

\* the buffers that differ from buf in the letter case of characters of its
\* last token only
CaseVariants(buf) ==
    LET n == Len(rstrip(buf))
        k == IF split(buf) = <<>> THEN 0 ELSE Len(split(buf)[Len(split(buf))])
    IN {SubSeq(buf, 1, n - k) \o w \o SubSeq(buf, n + 1, Len(buf)) :
          w \in WordVariants(SubSeq(buf, n - k + 1, n))}

\* C9: keyword lookup ignores the letter case of what was typed: a buffer
\* whose last token differs from the present one in letter case only gets
\* the same match decision from check_for_expansion and the same expansion
\* (same keyword, same phrase, same actions) from expand_from_buffer.
C9_CaseInsensitive ==
    \A v \in CaseVariants(buffer) :
        /\ check_for_expansion(v, shortcuts)
              = check_for_expansion(buffer, shortcuts)
        /\ expand_from_buffer(v, shortcuts).log
              = expand_from_buffer(buffer, shortcuts).log

\* the buffer holds "Ab", typed with a capital, which matches the key "ab"
\* and has a variant in another case
C9_Witness ==
    /\ buffer = <<"A", "b">>
    /\ <<"a", "b">> \in CaseVariants(buffer)
    /\ check_for_expansion(buffer, shortcuts)
    /\ expand_from_buffer(buffer, shortcuts).log # <<>>

\* ===================================================================
\* C10
\* ===================================================================
\* C10: what one Match-and-Expand does is, in this order and with nothing
\* else in between: n backspace press/release pairs, n the length of the
\* keyword, the clipboard write of the phrase, Control press, paste-key
\* press, paste-key release, Control release, the notification (keyword,
\* phrase), the buffer clear; it is the whole of what the press did, and
\* the buffer is empty when the handler returns.
C10_ExpandOrder ==
    (last.phase = "press" /\ last.log # <<>>) =>
        LET L == last.log
            n == (Len(L) - 7) \div 2
        IN /\ n >= 1 /\ Len(L) = 2 * n + 7
           /\ \A i \in 1..n :
                 /\ L[2 * i - 1] = Act("press", "backspace")
                 /\ L[2 * i] = Act("release", "backspace")
           /\ L[2 * n + 1].op = "copy"
           /\ L[2 * n + 2] = Act("press", "ctrl")
           /\ L[2 * n + 3] = Act("press", "v")
           /\ L[2 * n + 4] = Act("release", "v")
           /\ L[2 * n + 5] = Act("release", "ctrl")
           /\ L[2 * n + 6].op = "emit"
           /\ L[2 * n + 6].arg = L[2 * n + 1].arg
           /\ Len(L[2 * n + 6].kw) = n
           /\ L[2 * n + 7] = Act("clear", "buffer")
           /\ last.called
           /\ buffer = <<>>

\* a press has just expanded the two-letter keyword "ab"
C10_Witness ==
    /\ last.phase = "press" /\ last.called
    /\ Len(last.log) = 11
    /\ last.log[10].op = "emit" /\ last.log[10].kw = KwAB

\* ===================================================================
\* C11
\* ===================================================================
\* the characters the synthetic backspaces of an event remove from the end
\* of what was typed: as many as there are backspace presses in the log
ErasedTail(ev) ==
    LET n == Cardinality(Positions(ev.log, Act("press", "backspace")))
        m == Len(ev.before)
    IN IF n <= m THEN SubSeq(ev.before, m - n + 1, m) ELSE ev.before

\* the keyword an expanding event notified
EmittedKeywords(ev) == {ev.log[i].kw : i \in PositionsOf(ev.log, "emit")}

\* C11: whenever a press expands, the characters its len(keyword) synthetic
\* backspaces erase are the typed keyword: the last len(keyword) characters
\* of what was typed (the tail of the buffer), lower-cased, are the keyword
\* the expansion is for. Both modes.
C11_ErasesKeyword ==
    (last.phase = "press" /\ last.log # <<>>) =>
        \A kw \in EmittedKeywords(last) : lower(ErasedTail(last)) = kw

\* ===================================================================
\* C12
\* ===================================================================
\* the shell with the mode changed through the header's selector only, which
\* is disabled while monitoring: start, stop, mode changes made while
\* stopped, key events, time and snapshot refreshes
NextStoppedModes ==
    \/ \E key \in Keys : KeyPress(key)
    \/ \E key \in ReleaseKeys : KeyRelease(key)
    \/ Tick
    \/ toggle_monitoring
    \/ \E m \in Modes : change_mode(m)
    \/ \E sc \in Snapshots : set_shortcuts(sc)

SpecStoppedModes == Init /\ [][NextStoppedModes]_vars

\* C12: while the engine runs in hotkey mode, PendingExpansion is not set
\* and no key press is suppressed, after any sequence of start, stop, mode
\* changes made while stopped and key events, sessions in auto mode
\* included.
C12_HotkeyNeverSuppresses ==
    (is_running /\ mode = "hotkey") =>
        /\ ~pending_expansion
        /\ (last.phase = "press" => ~Suppressed(last))

\* ===================================================================
\* C13
\* ===================================================================
\* C13: transient engine state does not outlive a session: whenever the
\* engine starts, the buffer is empty, the Control-held flag is false and
\* PendingExpansion is false, whatever they were when it was stopped; no
\* step between the start and the first key event of the session changes
\* them, so this is what that event finds.
C13_FreshSession ==
    [][(~is_running /\ is_running') =>
          (buffer' = <<>> /\ ~ctrl_pressed' /\ ~pending_expansion')]_vars

\* ===================================================================
\* C14
\* ===================================================================
\* C14: the shell changes the engine's mode only while monitoring is
\* stopped: no step taken while is_monitoring is true calls set_mode with
\* a value different from the current mode.
C14_ModeChangeOnlyStopped ==
    [][is_monitoring => mode' = mode]_vars

\* ===================================================================
\* C17
\* ===================================================================
\* C17: a key release changes nothing except the Control-held flag: the
\* buffer, PendingExpansion and the last-press time are what they were
\* before the release, and the release is not suppressed.
C17_ReleaseOnlyControl ==
    [][last'.phase = "release" =>
          /\ buffer' = buffer
          /\ pending_expansion' = pending_expansion
          /\ last_key_time' = last_key_time
          /\ ~Suppressed(last')]_vars

\* Control has just been released in a running session whose buffer is not
\* empty and whose PendingExpansion is set, some time after the last press
C17_Witness ==
    /\ last.phase = "release" /\ last.key \in CtrlKeys
    /\ is_running /\ ~ctrl_pressed
    /\ buffer # <<>> /\ pending_expansion
    /\ now > last_key_time

\* ===================================================================
\* C15
\* ===================================================================
\* The listener thread runs on_press while the shell thread may call
\* set_shortcuts. A press that reaches expand_from_buffer reads
\* self.shortcuts up to three times: in check_for_expansion (auto mode), in
\* "if keyword in self.shortcuts" and in "self.shortcuts[keyword]". Each
\* read is one step of the listener thread; steps of the shell may come
\* between them. A press that does not reach expand_from_buffer reads the
\* mapping at most once and is one step.

\* a press that does not call expand_from_buffer
PressWhole(key) ==
    /\ pc = "idle"
    /\ ~on_press(key).called
    /\ KeyPress(key)

\* on_press up to the call of expand_from_buffer: the idle rule, the time
\* of the press, the mode rule's decision (in auto mode the first read of
\* the mapping, in check_for_expansion, and PendingExpansion set)
PressBegin(key) ==
    LET idle == IdleExpired(now, last_key_time)
        buf == IF idle THEN <<>> ELSE buffer
    IN /\ pc = "idle"
       /\ on_press(key).called
       /\ buffer' = buf
       /\ last_key_time' = now
       /\ pending_expansion' = IF mode = "auto" THEN TRUE
                               ELSE pending_expansion
       /\ prev_press_time' = now
       /\ pc' = "member"
       /\ call' = [key |-> key, keyword |-> <<>>, auto |-> mode = "auto",
                   reset |-> idle, before |-> buffer, snap |-> shortcuts]
       /\ last' = NoEvent
       /\ UNCHANGED <<is_monitoring, is_running, mode, shortcuts,
                      ctrl_pressed, now, lifevars, store>>
       /\ UNCHANGED envvars

\* on_press returns (ret, after an exception err was caught or none) with
\* log the record of what expand_from_buffer did
Return(ret, log, err) ==
    /\ last' = [phase |-> "press", key |-> call.key, ret |-> ret,
                log |-> log, reset |-> call.reset, called |-> TRUE,
                before |-> call.before, error |-> err, snap |-> call.snap]
    /\ pc' = "idle"
    /\ call' = NoCall

\* what on_press returns after expand_from_buffer returned
RetAfterExpand == IF call.auto THEN "False" ELSE "None"

\* expand_from_buffer, from its start to "if keyword in self.shortcuts"
ExpandMember ==
    LET words == split(strip(buffer))
    IN /\ pc = "member"
       /\ IF words = <<>>
          THEN Return(RetAfterExpand, <<>>, "none")
          ELSE LET keyword == lower(words[Len(words)])
               IN IF keyword \in DOMAIN shortcuts
                  THEN /\ pc' = "lookup"
                       /\ call' = [call EXCEPT !.keyword = keyword]
                       /\ last' = NoEvent
                  ELSE Return(RetAfterExpand, <<>>, "none")
       /\ UNCHANGED <<is_monitoring, is_running, mode, shortcuts, buffer,
                      last_key_time, ctrl_pressed, pending_expansion, now,
                      prev_press_time, lifevars, store>>
       /\ UNCHANGED envvars

\* expand_from_buffer, from "phrase = self.shortcuts[keyword]" to its end;
\* a key that is no longer there raises KeyError, which on_press catches
ExpandLookup ==
    /\ pc = "lookup"
    /\ IF call.keyword \in DOMAIN shortcuts
       THEN /\ buffer' = <<>>
            /\ Return(RetAfterExpand,
                      ExpandSteps(call.keyword, shortcuts[call.keyword]),
                      "none")
       ELSE /\ buffer' = buffer
            /\ Return("None", <<>>, "KeyError")
    /\ UNCHANGED <<is_monitoring, is_running, mode, shortcuts,
                   last_key_time, ctrl_pressed, pending_expansion, now,
                   prev_press_time, lifevars, store>>
    /\ UNCHANGED envvars

\* a release is delivered when the listener thread is free
ReleaseIdle(key) == pc = "idle" /\ KeyRelease(key)

NextRace ==
    \/ \E key \in Keys : PressWhole(key)
    \/ \E key \in Keys : PressBegin(key)
    \/ ExpandMember
    \/ ExpandLookup
    \/ \E key \in ReleaseKeys : ReleaseIdle(key)
    \/ Tick
    \/ toggle_monitoring
    \/ \E m \in Modes : change_mode(m)
    \/ \E m \in Modes : show_settings(m)
    \/ \E sc \in Snapshots : set_shortcuts(sc)

SpecRace == Init /\ [][NextRace]_vars

\* C15: a press that reaches Match-and-Expand uses one snapshot, the one
\* its match decision read: no lookup error arises, and if the press is a
\* suppressed delimiter it did a complete expansion of a key of that
\* snapshot to that snapshot's phrase.
C15_ConsistentSnapshot ==
    (last.phase = "press" /\ last.called) =>
        /\ last.error # "KeyError"
        /\ (DelimPressed(last) /\ Suppressed(last)) =>
              \E kw \in DOMAIN last.snap :
                  ExpandedAs(last, kw, last.snap[kw])

\* ===================================================================
\* C16
\* ===================================================================
\* The synthetic key actions and the clipboard write of expand_from_buffer
\* are calls into the operating system and may raise. The steps that may:
\* the backspaces, the clipboard write and the paste chord, which are all
\* of ExpandSteps but its last two entries.
FailPoints(log) == 1..(Len(log) - 2)

\* on_press when step i of the expansion raises: what came before it is
\* done (the idle rule, the time of the press, PendingExpansion in auto
\* mode, the steps before i), the rest of expand_from_buffer is not (the
\* buffer is not cleared), and "except Exception" ends the handler, which
\* returns None
on_press_failing(key, i) ==
    LET r == on_press(key)
    IN [r EXCEPT !.ret = "None",
                 !.buffer = IF r.reset THEN <<>> ELSE buffer,
                 !.log = SubSeq(r.log, 1, i - 1),
                 !.error = "raised"]

\* the listener delivers a key press during which step i of the expansion
\* raises
KeyPressFail(key, i) ==
    LET r == on_press_failing(key, i)
    IN /\ i \in FailPoints(on_press(key).log)
       /\ buffer' = r.buffer
       /\ last_key_time' = r.last_key_time
       /\ ctrl_pressed' = r.ctrl_pressed
       /\ pending_expansion' = r.pending_expansion
       /\ prev_press_time' = now
       /\ last' = [phase |-> "press", key |-> key, ret |-> r.ret,
                   log |-> r.log, reset |-> r.reset, called |-> r.called,
                   before |-> buffer, error |-> r.error,
                   snap |-> shortcuts]
       /\ UNCHANGED <<is_monitoring, is_running, mode, shortcuts, now>>
       /\ UNCHANGED <<racevars, lifevars, store>>
       /\ UNCHANGED envvars

\* the longest record of an expansion
MaxLog == 2 * MaxBuf + 7

NextFail ==
    \/ Next
    \/ \E key \in Keys : \E i \in 1..MaxLog : KeyPressFail(key, i)

SpecFail == Init /\ [][NextFail]_vars

\* C16: an error raised while a press is classified is caught inside
\* on_press and the press is a no-op: the buffer and PendingExpansion are
\* what they were before the event.
C16_ErrorIsNoOp ==
    [][(last'.phase = "press" /\ last'.error # "none") =>
          (buffer' = buffer /\ pending_expansion' = pending_expansion)]_vars

\* ===================================================================
\* C18
\* ===================================================================
\* The shell thread runs toggle_monitoring; KeyboardMonitor.start() makes
\* the monitor thread, which runs run(). Each statement of run and of stop
\* that reads or writes is_running or listener is one step.

\* toggle_monitoring, monitoring off: is_monitoring = True, monitor.start(),
\* which starts the thread unless it is still running
toggle_start ==
    /\ ~is_monitoring
    /\ stop_pc = "idle"
    /\ is_monitoring' = TRUE
    /\ run_pc' = IF run_pc = "none" THEN "started" ELSE run_pc
    /\ last' = NoEvent
    /\ UNCHANGED <<is_running, mode, shortcuts, buffer, last_key_time,
                   ctrl_pressed, pending_expansion, now, prev_press_time,
                   racevars, stop_pc, listener, store>>
    /\ UNCHANGED envvars

\* toggle_monitoring, monitoring on: is_monitoring = False, then the first
\* statement of stop, "self.is_running = False"
toggle_stop ==
    /\ is_monitoring
    /\ stop_pc = "idle"
    /\ is_monitoring' = FALSE
    /\ is_running' = FALSE
    /\ stop_pc' = "listener"
    /\ last' = NoEvent
    /\ UNCHANGED <<mode, shortcuts, buffer, last_key_time, ctrl_pressed,
                   pending_expansion, now, prev_press_time, racevars,
                   run_pc, listener, store>>
    /\ UNCHANGED envvars

\* stop, "if self.listener: self.listener.stop(); self.listener = None",
\* and stop returns
stop_listener ==
    /\ stop_pc = "listener"
    /\ listener' = FALSE
    /\ stop_pc' = "idle"
    /\ last' = NoEvent
    /\ UNCHANGED <<is_monitoring, is_running, mode, shortcuts, buffer,
                   last_key_time, ctrl_pressed, pending_expansion, now,
                   prev_press_time, racevars, run_pc, store>>
    /\ UNCHANGED envvars

\* run, "self.is_running = True"
run_flag ==
    /\ run_pc = "started"
    /\ is_running' = TRUE
    /\ run_pc' = "set"
    /\ last' = NoEvent
    /\ UNCHANGED <<is_monitoring, mode, shortcuts, buffer, last_key_time,
                   ctrl_pressed, pending_expansion, now, prev_press_time,
                   racevars, stop_pc, listener, store>>
    /\ UNCHANGED envvars

\* run, "with keyboard.Listener(...) as self.listener": the hook is
\* installed, and the thread waits in join
run_listen ==
    /\ run_pc = "set"
    /\ listener' = TRUE
    /\ run_pc' = "join"
    /\ last' = NoEvent
    /\ UNCHANGED <<is_monitoring, is_running, mode, shortcuts, buffer,
                   last_key_time, ctrl_pressed, pending_expansion, now,
                   prev_press_time, racevars, stop_pc, store>>
    /\ UNCHANGED envvars

\* run, join returns once the listener was stopped, and run ends
run_return ==
    /\ run_pc = "join"
    /\ ~listener
    /\ run_pc' = "none"
    /\ last' = NoEvent
    /\ UNCHANGED <<is_monitoring, is_running, mode, shortcuts, buffer,
                   last_key_time, ctrl_pressed, pending_expansion, now,
                   prev_press_time, racevars, stop_pc, listener, store>>
    /\ UNCHANGED envvars

\* the installed hook delivers a key event
HookedPress(key) == listener /\ KeyPress(key)
HookedRelease(key) == listener /\ KeyRelease(key)

NextLife ==
    \/ toggle_start
    \/ toggle_stop
    \/ stop_listener
    \/ run_flag
    \/ run_listen
    \/ run_return
    \/ \E key \in Keys : HookedPress(key)
    \/ \E key \in ReleaseKeys : HookedRelease(key)
    \/ Tick

SpecLife == Init /\ [][NextLife]_vars

\* C18: once stop() has returned and no start was requested after it, the
\* engine is off: is_running is false and no listener is installed (so no
\* key event is delivered or classified), under every interleaving of the
\* shell thread with the monitor thread.
C18_StopUninstalls ==
    (~is_monitoring /\ stop_pc = "idle") => (~is_running /\ ~listener)

\* ===================================================================
\* C19
\* ===================================================================
\* The store and the shell's handlers that change it. A row of the table
\* shortcuts is its keyword (UNIQUE), its phrase and its usage_count; the
\* store is the function from the keywords of the rows to the rest.

\* a usage counter counts up to here
MaxUsage == 2
\* an imported file holds up to this many entries
MaxImport == 1

\* what the user types into the keyword field of a dialog, or a file holds
\* as a keyword
StoreTexts == {KwB, <<"A", "b">>, <<"a", " ", "b">>, <<>>}
StorePhrases == {"P1", "P2"}

\* the keywords a row can have: a typed one, stripped and lower-cased, one
\* of a file, or one of the first store
StoreKeys ==
    {lower(strip(t)) : t \in StoreTexts} \cup StoreTexts \cup {KwAB, KwB}

\* the entries of an imported file
ImportEntries ==
    [keyword : StoreTexts, phrase : StorePhrases, usage_count : 0..MaxUsage]
ImportFiles ==
    UNION {[1..n -> ImportEntries] : n \in 1..MaxImport}

\* the store st with the row of key k set to row
PutRow(st, k, row) ==
    [x \in DOMAIN st \cup {k} |-> IF x = k THEN row ELSE st[x]]

\* Database.add_shortcut: INSERT of keyword.lower(); a keyword that is
\* there already raises IntegrityError and False is returned
db_add_shortcut(st, keyword, phrase) ==
    IF lower(keyword) \in DOMAIN st
    THEN [ok |-> FALSE, store |-> st]
    ELSE [ok |-> TRUE,
          store |-> PutRow(st, lower(keyword),
                           [phrase |-> phrase, usage_count |-> 0])]

\* Database.update_shortcut of the row whose keyword is old: UPDATE to
\* keyword.lower(); the keyword of another row raises IntegrityError, which
\* nothing catches, and the table is as before
db_update_shortcut(st, old, keyword, phrase) ==
    LET new == lower(keyword)
    IN IF new # old /\ new \in DOMAIN st
       THEN st
       ELSE [x \in (DOMAIN st \ {old}) \cup {new} |->
                IF x = new
                THEN [phrase |-> phrase, usage_count |-> st[old].usage_count]
                ELSE st[x]]

\* Database.delete_shortcut of the row whose keyword is old
db_delete_shortcut(st, old) == [x \in DOMAIN st \ {old} |-> st[x]]

\* a counter that counts each use twice
db_increment_usage_Twice(st, keyword) ==
    IF lower(keyword) \in DOMAIN st
    THEN [st EXCEPT ![lower(keyword)].usage_count = @ + 2]
    ELSE st

\* Database.increment_usage: UPDATE ... WHERE keyword = keyword.lower()
db_increment_usage(st, keyword) ==
    IF lower(keyword) \in DOMAIN st
    THEN [st EXCEPT ![lower(keyword)].usage_count = @ + 1]
    ELSE st

\* Database.import_data: INSERT OR REPLACE of each entry of the file, the
\* keyword as the file has it, the usage_count of the file (0 if absent)
RECURSIVE db_import_data(_, _)
db_import_data(st, entries) ==
    IF entries = <<>> THEN st
    ELSE LET e == Head(entries)
         IN db_import_data(
                PutRow(st, e.keyword,
                       [phrase |-> e.phrase, usage_count |-> e.usage_count]),
                Tail(entries))

\* MainWindow.update_monitor_shortcuts: {s[1]: s[2] for s in shortcuts}
SnapshotOf(st) == [k \in DOMAIN st |-> st[k].phrase]

\* MainWindow.load_shortcuts after the store became st: the engine gets the
\* store's mapping
load_shortcuts(st) ==
    /\ store' = st
    /\ shortcuts' = SnapshotOf(st)
    /\ last' = NoEvent
    /\ UNCHANGED <<is_monitoring, is_running, mode, buffer, last_key_time,
                   ctrl_pressed, pending_expansion, now, prev_press_time,
                   racevars, lifevars>>

\* MainWindow.add_shortcut: the dialog strips the keyword; an empty keyword
\* or a keyword that exists changes nothing
add_shortcut(text, phrase) ==
    LET data == strip(text)
        r == db_add_shortcut(store, data, phrase)
    IN /\ data # <<>>
       /\ r.ok
       /\ load_shortcuts(r.store)
       /\ UNCHANGED envvars

\* MainWindow.edit_shortcut of the selected row
edit_shortcut(old, text, phrase) ==
    LET data == strip(text)
    IN /\ old \in DOMAIN store
       /\ data # <<>>
       /\ load_shortcuts(db_update_shortcut(store, old, data, phrase))
       /\ UNCHANGED envvars

\* MainWindow.delete_shortcut of the selected row
delete_shortcut(old) ==
    /\ old \in DOMAIN store
    /\ load_shortcuts(db_delete_shortcut(store, old))
    /\ UNCHANGED envvars

\* MainWindow.import_data
import_data(entries) ==
    /\ entries \in ImportFiles
    /\ load_shortcuts(db_import_data(store, entries))
    /\ UNCHANGED envvars

\* the keywords the engine can notify: the keys of its snapshot that a
\* lower-cased token can be
Emittable(sc) ==
    {k \in DOMAIN sc : k # <<>> /\ lower(k) = k
                         /\ \A i \in DOMAIN k : k[i] \notin Whitespace}

\* MainWindow.on_expansion, the slot of the engine's notification
on_expansion(keyword) ==
    /\ keyword \in Emittable(shortcuts)
    /\ keyword \in DOMAIN store => store[keyword].usage_count < MaxUsage
    /\ load_shortcuts(db_increment_usage(store, keyword))
    /\ UNCHANGED envvars

NextStore ==
    \/ \E text \in StoreTexts, phrase \in StorePhrases :
          add_shortcut(text, phrase)
    \/ \E old \in StoreKeys, text \in StoreTexts, phrase \in StorePhrases :
          edit_shortcut(old, text, phrase)
    \/ \E old \in StoreKeys : delete_shortcut(old)
    \/ \E entries \in ImportFiles : import_data(entries)
    \/ \E keyword \in StoreKeys : on_expansion(keyword)

SpecStore == Init /\ [][NextStore]_vars

\* C19: after any sequence of add, edit, delete and import, each followed
\* by the snapshot refresh, every key of the snapshot handed to the engine
\* is non-empty, lower-case and free of whitespace (the keys of a mapping
\* are unique).
C19_SnapshotKeysClean ==
    \A k \in DOMAIN shortcuts :
        /\ k # <<>>
        /\ lower(k) = k
        /\ \A i \in DOMAIN k : k[i] \notin Whitespace

\* ===================================================================
\* C20
\* ===================================================================
\* C20: the usage counter is monotonic: the usage_count of a keyword that
\* is in the store before and after a store operation is not smaller after
\* it.
C20_UsageMonotonic ==
    [][\A k \in DOMAIN store \cap DOMAIN store' :
          store'[k].usage_count >= store[k].usage_count]_vars

\* ===================================================================
\* C21
\* ===================================================================
\* The keyboard: held is the set of Control keys that are down. Every press
\* and release happens while the engine runs and is delivered to it, so no
\* event is missed; a key that is down may repeat its press. The engine is
\* started and stopped with no Control key down.

\* a key goes down (or repeats) and the listener delivers the press
PhysPress(key) ==
    LET r == on_press(key)
    IN /\ is_running
       /\ Len(r.buffer) <= MaxBuf
       /\ held' = IF key \in CtrlKeys THEN held \cup {key} ELSE held
       /\ buffer' = r.buffer
       /\ last_key_time' = r.last_key_time
       /\ ctrl_pressed' = r.ctrl_pressed
       /\ pending_expansion' = r.pending_expansion
       /\ prev_press_time' = now
       /\ last' = [phase |-> "press", key |-> key, ret |-> r.ret,
                   log |-> r.log, reset |-> r.reset, called |-> r.called,
                   before |-> buffer, error |-> r.error,
                   snap |-> IF r.called THEN shortcuts ELSE NoSnap]
       /\ UNCHANGED <<is_monitoring, is_running, mode, shortcuts, now>>
       /\ UNCHANGED <<racevars, lifevars, store, inbox, served>>

\* a key that is down goes up and the listener delivers the release
PhysRelease(key) ==
    LET r == on_release(key)
    IN /\ is_running
       /\ key \in CtrlKeys => key \in held
       /\ held' = held \ {key}
       /\ buffer' = r.buffer
       /\ last_key_time' = r.last_key_time
       /\ ctrl_pressed' = r.ctrl_pressed
       /\ pending_expansion' = r.pending_expansion
       /\ last' = [phase |-> "release", key |-> key, ret |-> r.ret,
                   log |-> <<>>, reset |-> FALSE, called |-> FALSE,
                   before |-> buffer, error |-> "none", snap |-> NoSnap]
       /\ UNCHANGED <<is_monitoring, is_running, mode, shortcuts, now,
                      prev_press_time>>
       /\ UNCHANGED <<racevars, lifevars, store, inbox, served>>

\* MainWindow.toggle_monitoring with no Control key down
toggle_released == held = {} /\ toggle_monitoring

NextKeyboard ==
    \/ \E key \in Keys : PhysPress(key)
    \/ \E key \in ReleaseKeys : PhysRelease(key)
    \/ toggle_released
    \/ Tick

SpecKeyboard == Init /\ [][NextKeyboard]_vars

\* C21: with no press or release missed, the Control-held flag the engine
\* uses is the physical state: while the engine runs, ctrl_pressed is true
\* exactly when at least one of the two Control keys is down.
C21_ControlFollowsKeys ==
    is_running => (ctrl_pressed <=> held # {})

\* ===================================================================
\* C22
\* ===================================================================
\* the keys that are neither a character, Space nor Backspace
UnbufferedKeys == (SpecialKeys \ {"space", "backspace"})

\* C22: in hotkey mode, for a press that arrives no more than 2 seconds
\* after the last press whose time the engine recorded: a Space pressed
\* while Control is held is not added to the buffer, and when the buffer's
\* last token is not a key of the snapshot (or there is no token) it leaves
\* the buffer unchanged and does no synthetic action; a plain Space appends
\* one space character; Enter, Tab and the other control keys leave the
\* buffer unchanged.
C22_HotkeyBuffering ==
    [][(/\ is_running /\ mode = "hotkey"
        /\ last'.phase = "press"
        /\ ~IdleExpired(now, last_key_time)) =>
          /\ (last'.key = "space" /\ ctrl_pressed) =>
                /\ buffer' # Append(buffer, " ")
                /\ ~Matches(buffer, shortcuts) =>
                      (buffer' = buffer /\ NoExpansion(last'))
          /\ (last'.key = "space" /\ ~ctrl_pressed) =>
                buffer' = Append(buffer, " ")
          /\ last'.key \in UnbufferedKeys => buffer' = buffer]_vars

\* ===================================================================
\* C23
\* ===================================================================
\* expansion_triggered is emitted on the listener thread and its slot,
\* MainWindow.on_expansion, lives on the shell thread: Qt queues each
\* emission, emit returns at once, and the shell's event loop calls the
\* slot once for each queued emission, in order.

\* the queue holds up to this many emissions
MaxInbox == 2

\* the notifications a handler's record of actions holds, in order
EmitsOf(log) == SelectSeq(log, LAMBDA e : e.op = "emit")

\* the keys pressed here: the characters of the keywords, a delimiter and
\* a Control key
NotifyKeys == {"a", "b", "space", "ctrl_l"}

\* the number of queued notifications for the keyword kw
Queued(kw) == Cardinality({i \in DOMAIN inbox : inbox[i].kw = kw})

\* the listener delivers a key press to the running engine; what it emits
\* is queued for the shell
NotifyPress(key) ==
    LET r == on_press(key)
        q == EmitsOf(r.log)
    IN /\ is_running
       /\ Len(r.buffer) <= MaxBuf
       /\ Len(inbox) + Len(q) <= MaxInbox
       /\ \A i \in DOMAIN q :
             q[i].kw \in DOMAIN store =>
                store[q[i].kw].usage_count + Queued(q[i].kw) < MaxUsage
       /\ inbox' = inbox \o q
       /\ buffer' = r.buffer
       /\ last_key_time' = r.last_key_time
       /\ ctrl_pressed' = r.ctrl_pressed
       /\ pending_expansion' = r.pending_expansion
       /\ prev_press_time' = now
       /\ last' = [phase |-> "press", key |-> key, ret |-> r.ret,
                   log |-> r.log, reset |-> r.reset, called |-> r.called,
                   before |-> buffer, error |-> r.error,
                   snap |-> IF r.called THEN shortcuts ELSE NoSnap]
       /\ UNCHANGED <<is_monitoring, is_running, mode, shortcuts, now>>
       /\ UNCHANGED <<racevars, lifevars, store, held, served>>

\* the shell's event loop takes the oldest queued emission and calls
\* MainWindow.on_expansion(keyword, phrase)
handle_expansion ==
    /\ inbox # <<>>
    /\ inbox' = Tail(inbox)
    /\ served' = ~served
    /\ load_shortcuts(db_increment_usage(store, Head(inbox).kw))
    /\ UNCHANGED held

NextNotify ==
    \/ \E key \in NotifyKeys : NotifyPress(key)
    \/ handle_expansion
    \/ toggle_monitoring
    \/ \E m \in Modes : change_mode(m)
    \/ \E old \in StoreKeys : delete_shortcut(old)

\* the event loop of the shell keeps running: a queued emission is handled
SpecNotify == Init /\ [][NextNotify]_vars /\ WF_vars(handle_expansion)

\* the step handles the oldest queued notification: it leaves the queue,
\* and the usage count of its keyword goes up by one if the keyword is in
\* the store, and the store is as before otherwise
HandlesHead ==
    /\ inbox # <<>>
    /\ inbox' = Tail(inbox)
    /\ LET k == Head(inbox).kw
       IN IF k \in DOMAIN store
          THEN store' = [store EXCEPT ![k].usage_count = @ + 1]
          ELSE store' = store

\* C23: every notification the engine emits is queued once, the shell
\* handles the queued notifications one by one, a handling raises the usage
\* count of the notification's keyword by exactly one if the keyword is
\* still in the store, no usage count changes in any other way, and a
\* queued notification is eventually handled; the press that emitted it
\* has returned without waiting.
C23_NotifiedOnce ==
    /\ [][/\ last'.phase = "press" => inbox' = inbox \o EmitsOf(last'.log)
          /\ inbox' # inbox => (last'.phase = "press" \/ HandlesHead)
          /\ \A k \in DOMAIN store \cap DOMAIN store' :
                store'[k].usage_count # store[k].usage_count => HandlesHead
          /\ served' # served <=> HandlesHead
         ]_vars
    /\ \A b \in BOOLEAN : (inbox # <<>> /\ served = b) ~> (served # b)

\* the notification of one expansion of b was handled, that of a second is
\* queued, and the engine has classified a later press meanwhile
C23_Witness ==
    /\ KwB \in DOMAIN store /\ store[KwB].usage_count = 1
    /\ Len(inbox) = 1 /\ inbox[1].kw = KwB
    /\ last.phase = "press" /\ last.log = <<>> /\ buffer # <<>>

\* ===================================================================
\* C24
\* ===================================================================
\* Sessions that start in auto mode with an empty buffer: Start is pressed
\* only then. Everything else is as in Spec.

\* MainWindow.toggle_monitoring, the start branch, with auto selected and
\* nothing in the buffer
start_auto_session ==
    /\ ~is_monitoring
    /\ mode = "auto"
    /\ buffer = <<>>
    /\ toggle_monitoring

\* MainWindow.toggle_monitoring, the stop branch
stop_session ==
    /\ is_monitoring
    /\ toggle_monitoring

NextAutoSession ==
    \/ \E key \in Keys : KeyPress(key)
    \/ \E key \in ReleaseKeys : KeyRelease(key)
    \/ Tick
    \/ start_auto_session
    \/ stop_session
    \/ \E m \in Modes : change_mode(m)
    \/ \E m \in Modes : show_settings(m)
    \/ \E sc \in Snapshots : set_shortcuts(sc)

SpecAutoSession == Init /\ [][NextAutoSession]_vars

\* C24: in a session started in auto mode with an empty buffer, whenever
\* the engine is running in auto mode the buffer holds no whitespace
\* character, so its last whitespace-delimited token is the whole buffer.
C24_NoWhitespaceInAuto ==
    (is_running /\ mode = "auto") =>
        /\ \A i \in DOMAIN buffer : buffer[i] \notin Whitespace
        /\ buffer # <<>> => split(buffer) = <<buffer>>

\* ===================================================================
\* C25
\* ===================================================================
\* Steady typing: time passes only as far as leaves the next press at most
\* 2 seconds after the last press the running engine classified, so every
\* pair of consecutive presses is at most 2 seconds apart. Everything else
\* is as in Spec.
TickSteady ==
    /\ prev_press_time # -1 => now + 1 - prev_press_time <= 2
    /\ Tick

NextSteady ==
    \/ \E key \in Keys : KeyPress(key)
    \/ \E key \in ReleaseKeys : KeyRelease(key)
    \/ TickSteady
    \/ toggle_monitoring
    \/ \E m \in Modes : change_mode(m)
    \/ \E m \in Modes : show_settings(m)
    \/ \E sc \in Snapshots : set_shortcuts(sc)

SpecSteady == Init /\ [][NextSteady]_vars

\* C25: when every two consecutive presses are at most 2 seconds apart, no
\* press has its non-empty buffer cleared by the idle rule, also after
\* delimiters that the PendingExpansion rule suppressed.
C25_NoResetWhenSteady ==
    ~(last.phase = "press" /\ last.reset /\ last.before # <<>>)

\* ===================================================================
\* C26
\* ===================================================================
\* C26: PendingExpansion is set only by a press that completes an
\* expansion: the step on which the flag goes from false to true is a press
\* that emitted the expansion-completed notification and left the buffer
\* empty, also when a synthetic action or the clipboard write raises and
\* when the snapshot is replaced during the press.
C26_PendingMeansExpanded ==
    [][(~pending_expansion /\ pending_expansion') =>
          /\ last'.phase = "press"
          /\ PositionsOf(last'.log, "emit") # {}
          /\ buffer' = <<>>]_vars

\* ===================================================================
\* C27
\* ===================================================================
\* the step is a key event delivered to the engine
KeyEvent(ev) == ev.phase \in {"press", "release"}

\* as stated: while is_running is false no key event, press or release,
\* changes the buffer, the Control-held flag, PendingExpansion or the
\* last-press time, and none is suppressed
C27_AsStated ==
    [][(~is_running /\ KeyEvent(last')) =>
          /\ buffer' = buffer
          /\ ctrl_pressed' = ctrl_pressed
          /\ pending_expansion' = pending_expansion
          /\ last_key_time' = last_key_time
          /\ ~Suppressed(last')]_vars

\* C27: while is_running is false, a key press delivered to the engine
\* changes none of the buffer, the Control-held flag, PendingExpansion and
\* the last-press time; a key release changes none of them except that the
\* release of a Control key clears the Control-held flag; no key event is
\* suppressed.
C27_StoppedEngineIgnores ==
    [][(~is_running /\ KeyEvent(last')) =>
          /\ buffer' = buffer
          /\ pending_expansion' = pending_expansion
          /\ last_key_time' = last_key_time
          /\ ~Suppressed(last')
          /\ last'.phase = "press" => ctrl_pressed' = ctrl_pressed
          /\ last'.phase = "release" =>
                ctrl_pressed' = (ctrl_pressed /\ last'.key \notin CtrlKeys)
       ]_vars

\* the hook, still installed after is_running became false, delivered a
\* character key and the buffer, not empty, is as it was
C27_Witness ==
    /\ ~is_running
    /\ listener
    /\ last.phase = "press" /\ last.key \in Chars
    /\ buffer # <<>> /\ buffer = last.before
    /\ ctrl_pressed
====
